---- MODULE Spec2Model ----
(***************************************************************************)
(* A model of SpotifyInterface (src/spotify_interface.py): the lazy page   *)
(* iterator _get_all_items, the URI normalisers, the record projections,   *)
(* the batched audio-feature fetcher and get_df_from_playlist.             *)
(***************************************************************************)
EXTENDS Integers, Sequences, FiniteSets, TLC

VARIABLES
    \* --- _get_all_items (one traversal) ---
    remote,     \* the remote listing: the sequence of pages it serves
    pc,         \* position of the _get_all_items generator
    offset,     \* _get_all_items: local `offset`
    response,   \* _get_all_items: local `response`
    idx,        \* _get_all_items: items of `new_items` already yielded
    yielded,    \* history: every item the generator has yielded, in order
    calls,      \* history: the offset of every getter_function call, in order
    requested,  \* history: number of next() calls the consumer has made
    \* --- get_playlist_uri_from_playlist / get_track_uri_from_track ---
    nz_kind,    \* which normaliser: "playlist" or "track"
    nz_x,       \* the argument
    nz_once,    \* f(x), once computed
    nz_twice,   \* f(f(x)), once computed
    \* --- get_info_from_playlist / _track / _audio_features ---
    pj_kind,    \* which projection: "playlist", "track" or "features"
    pj_arg,     \* the argument
    pj_case,    \* history: how the argument was derived from a complete record
    pj_out,     \* the outcome: a returned row or a raised exception
    \* --- get_audio_features ---
    f_pc,       \* position of the generator expression
    f_tracks,   \* the argument `tracks`
    track_uris, \* local `track_uris`
    f_n,        \* the length of range(ceil(len(track_uris) / MAX_FEATURES))
    f_i,        \* loop variable `i`
    f_batch,    \* the list the current sp.audio_features call returned
    f_j,        \* elements of f_batch already yielded
    f_calls,    \* history: the argument of every sp.audio_features call
    f_out,      \* history: every element yielded, in order
    \* --- get_df_from_playlist ---
    df_pc,      \* position in get_df_from_playlist
    df_args,    \* the arguments playlist, include_audio_features, verbose, and
                \* (history) the kind of each item of the playlist
    df_records, \* the rows get_info_from_track has returned so far
    df,         \* local `df`: a sequence of rows, each with its index label
    df_feature_rows, \* the rows get_info_from_audio_features has returned
    df_result   \* the returned frame

pagVars == <<remote, pc, offset, response, idx, yielded, calls, requested>>
normVars == <<nz_kind, nz_x, nz_once, nz_twice>>
projVars == <<pj_kind, pj_arg, pj_case, pj_out>>
featVars == <<f_pc, f_tracks, track_uris, f_n, f_i, f_batch, f_j, f_calls, f_out>>
dfVars == <<df_pc, df_args, df_records, df, df_feature_rows, df_result>>

vars == <<pagVars, normVars, projVars, featVars, dfVars>>

notPag == <<normVars, projVars, featVars, dfVars>>
notNorm == <<pagVars, projVars, featVars, dfVars>>
notProj == <<pagVars, normVars, featVars, dfVars>>
notFeat == <<pagVars, normVars, projVars, dfVars>>

-----------------------------------------------------------------------------
(* Bounds of the model.                                                    *)
MaxPages == 3
MaxLimit == 2
MaxIdLen == 2
MaxTracks == 250
CatalogueSize == 3
MaxPlaylistLen == 3
DfPageLimit == 2

-----------------------------------------------------------------------------
(* Python values: None, str, int, dict and list.                           *)
None == [t |-> "None"]
Str(s) == [t |-> "str", s |-> s]
Num(i) == [t |-> "int", i |-> i]
Dict(f) == [t |-> "dict", d |-> f]
List(q) == [t |-> "list", l |-> q]

IsNone(x) == x.t = "None"
IsDict(x) == x.t = "dict"

-----------------------------------------------------------------------------
(* Strings.                                                                *)

\* str.startswith
StartsWith(s, p) == Len(s) >= Len(p) /\ SubSeq(s, 1, Len(p)) = p

\* number of places at which p occurs in s
Occurrences(p, s) ==
    Cardinality({i \in 1..(Len(s) - Len(p) + 1) : SubSeq(s, i, i + Len(p) - 1) = p})

Contains(p, s) == Occurrences(p, s) > 0

Digits == <<"0", "1", "2", "3", "4", "5", "6", "7", "8", "9">>

RECURSIVE ToStr(_)
\* the decimal numeral of n
ToStr(n) == IF n < 10 THEN Digits[n + 1] ELSE ToStr(n \div 10) \o Digits[(n % 10) + 1]

TrackId(j) == "t" \o ToStr(j)

-----------------------------------------------------------------------------
(* Identifier normalisation.                                               *)

PlaylistPrefix == "spotify:playlist:"
TrackPrefix == "spotify:track:"

\* a variant that prepends the prefix unless the string holds a colon
PlaylistUriUnlessColon(playlist) ==
    IF IsDict(playlist) THEN playlist.d["uri"]
    ELSE IF Contains(":", playlist.s) THEN playlist
    ELSE Str(PlaylistPrefix \o playlist.s)

get_playlist_uri_from_playlist(playlist) ==
    IF IsDict(playlist) THEN playlist.d["uri"]
    ELSE IF StartsWith(playlist.s, PlaylistPrefix) THEN playlist
    ELSE Str(PlaylistPrefix \o playlist.s)

get_track_uri_from_track(track) ==
    IF IsDict(track) THEN track.d["uri"]
    ELSE IF StartsWith(track.s, TrackPrefix) THEN track
    ELSE Str(TrackPrefix \o track.s)

PrefixOfKind(kind) == IF kind = "playlist" THEN PlaylistPrefix ELSE TrackPrefix

Normalise(kind, x) ==
    IF kind = "playlist" THEN get_playlist_uri_from_playlist(x)
    ELSE get_track_uri_from_track(x)

NormIdle ==
    /\ nz_kind = "playlist"
    /\ nz_x = None
    /\ nz_once = None
    /\ nz_twice = None

\* f(x)
NormaliseOnce ==
    /\ ~IsNone(nz_x)
    /\ IsNone(nz_once)
    /\ nz_once' = Normalise(nz_kind, nz_x)
    /\ UNCHANGED <<nz_kind, nz_x, nz_twice>>
    /\ UNCHANGED notNorm

\* f(f(x))
NormaliseTwice ==
    /\ ~IsNone(nz_once)
    /\ IsNone(nz_twice)
    /\ nz_twice' = Normalise(nz_kind, nz_once)
    /\ UNCHANGED <<nz_kind, nz_x, nz_once>>
    /\ UNCHANGED notNorm

-----------------------------------------------------------------------------
(* The remote paging operation sp.user_playlists / sp.playlist_items.      *)

RECURSIVE PageStart(_, _)
\* offset at which page k of the listing starts: the sum of the limits before it
PageStart(pages, k) ==
    IF k = 1 THEN 0 ELSE PageStart(pages, k - 1) + pages[k - 1].limit

\* what the remote serves past its last page
PastEnd == [items |-> <<>>, limit |-> 1, next |-> None]

\* getter_function(uri, offset=offset): the page that starts at `off`
Getter(pages, off) ==
    LET ks == {k \in 1..Len(pages) : PageStart(pages, k) = off}
    IN IF ks = {} THEN PastEnd
       ELSE pages[CHOOSE k \in ks : \A j \in ks : k <= j]

\* _get_all_items is a generator function: calling it runs none of its body
GenInit ==
    /\ pc = "created"
    /\ offset = 0
    /\ response = PastEnd
    /\ idx = 0
    /\ yielded = <<>>
    /\ calls = <<>>
    /\ requested = 0

\* line 297-298: response = getter_function(uri, offset=offset)
Fetch ==
    /\ pc = "fetch"
    /\ response' = Getter(remote, offset)
    /\ idx' = 0
    /\ pc' = "iter"
    /\ UNCHANGED <<remote, offset, yielded, requested>>
    /\ UNCHANGED notPag

GetterCall == Fetch /\ calls' = Append(calls, offset)

\* a variant that fetches the following page as soon as a page's last item is
\* handed out (what an eager, list-building traversal does)
YieldItemPrefetch ==
    /\ pc = "iter"
    /\ idx < Len(response.items)
    /\ yielded' = Append(yielded, response.items[idx + 1])
    /\ pc' = "yielded"
    /\ IF idx + 1 = Len(response.items) /\ ~IsNone(response.next)
       THEN /\ offset' = offset + response.limit
            /\ response' = Getter(remote, offset')
            /\ calls' = Append(calls, offset')
            /\ idx' = 0
       ELSE /\ idx' = idx + 1
            /\ UNCHANGED <<offset, response, calls>>
    /\ UNCHANGED <<remote, requested>>
    /\ UNCHANGED notPag

\* line 299-300: for item in new_items: yield item
YieldItem ==
    /\ pc = "iter"
    /\ idx < Len(response.items)
    /\ yielded' = Append(yielded, response.items[idx + 1])
    /\ idx' = idx + 1
    /\ pc' = "yielded"
    /\ UNCHANGED <<remote, offset, response, calls, requested>>
    /\ UNCHANGED notPag

\* a variant that advances by the number of items received
AdvanceOffsetByCount ==
    /\ pc = "iter"
    /\ idx = Len(response.items)
    /\ offset' = offset + Len(response.items)
    /\ pc' = IF IsNone(response.next) THEN "done" ELSE "fetch"
    /\ UNCHANGED <<remote, response, idx, yielded, calls, requested>>
    /\ UNCHANGED notPag

\* line 301-303: offset += response['limit']; break when response['next'] is None
AdvanceOffset ==
    /\ pc = "iter"
    /\ idx = Len(response.items)
    /\ offset' = offset + response.limit
    /\ pc' = IF IsNone(response.next) THEN "done" ELSE "fetch"
    /\ UNCHANGED <<remote, response, idx, yielded, calls, requested>>
    /\ UNCHANGED notPag

\* the consumer calls next() on the generator: the body starts, or resumes
\* after the yield
ConsumerNext ==
    /\ pc \in {"created", "yielded"}
    /\ pc' = IF pc = "created" THEN "fetch" ELSE "iter"
    /\ requested' = requested + 1
    /\ UNCHANGED <<remote, offset, response, idx, yielded, calls>>
    /\ UNCHANGED notPag

\* the consumer stops consuming: the suspended generator is dropped
ConsumerStop ==
    /\ pc \in {"created", "yielded"}
    /\ pc' = "closed"
    /\ UNCHANGED <<remote, offset, response, idx, yielded, calls, requested>>
    /\ UNCHANGED notPag

-----------------------------------------------------------------------------
(* Well-behaved listings: every limit >= 1, at most `limit` items a page,  *)
(* `next` absent on the last page only. Items are numbered in order.       *)

PageShapes == {sh \in [limit : 1..MaxLimit, count : 0..MaxLimit] : sh.count <= sh.limit}

RECURSIVE MakePages(_, _, _)
MakePages(shapes, k, first) ==
    IF k > Len(shapes) THEN <<>>
    ELSE <<[items |-> [i \in 1..shapes[k].count |-> first + i - 1],
            limit |-> shapes[k].limit,
            next  |-> IF k = Len(shapes) THEN None ELSE Str("next")]>>
         \o MakePages(shapes, k + 1, first + shapes[k].count)

GoodRemotes ==
    UNION {{MakePages(shapes, 1, 1) : shapes \in [1..n -> PageShapes]} : n \in 1..MaxPages}

\* Misbehaving listings: after the pages of a well-behaved listing, whose
\* last page now reports a `next`, comes a page with `next` present, no
\* items and limit 0, which the remote serves again at the same offset.
StuckPage == [items |-> <<>>, limit |-> 0, next |-> Str("next")]

RogueRemotes ==
    {[k \in 1..Len(pages) |->
         [pages[k] EXCEPT !.next = Str("next")]] \o <<StuckPage>> : pages \in GoodRemotes}

\* the page fetch without the history of calls
GetterCallUnrecorded == Fetch /\ UNCHANGED calls

-----------------------------------------------------------------------------
(* get_audio_features: the batched audio-feature fetcher.                  *)

MAX_FEATURES == 100

TRACK_COLUMNS_AUDIO_FEATURES ==
    <<"tempo", "time_signature", "key", "mode", "danceability", "energy", "speechiness",
      "acousticness", "instrumentalness", "liveness", "loudness", "valence">>

Min(a, b) == IF a <= b THEN a ELSE b

Range(q) == {q[i] : i \in DOMAIN q}

\* the remote has no audio features for a track whose URI ends in "0"
Unanalysed(uri) == SubSeq(uri.s, Len(uri.s), Len(uri.s)) = "0"

\* the last character of the URI, as a number when it is a digit
LastDigit(uri) ==
    LET last == SubSeq(uri.s, Len(uri.s), Len(uri.s))
        ds == {d \in DOMAIN Digits : Digits[d] = last}
    IN IF ds = {} THEN 0 ELSE (CHOOSE d \in ds : TRUE) - 1

\* the audio-feature object of one track: the track it describes and the
\* declared features, numbers that differ from feature to feature and (by
\* the last digit of the URI) from track to track
FeatureObject(uri) ==
    Dict([key \in Range(TRACK_COLUMNS_AUDIO_FEATURES) \cup {"uri"} |->
            IF key = "uri" THEN uri
            ELSE Num(10 * (CHOOSE i \in DOMAIN TRACK_COLUMNS_AUDIO_FEATURES :
                              TRACK_COLUMNS_AUDIO_FEATURES[i] = key)
                     + LastDigit(uri))])

\* self.sp.audio_features(uris): one result per URI, None where the remote
\* has no features
audio_features(uris) ==
    [j \in 1..Len(uris) |-> IF Unanalysed(uris[j]) THEN None ELSE FeatureObject(uris[j])]

\* a variant that rounds the number of batches down
NumBatchesFloor(n) == n \div MAX_FEATURES

\* line 205: ceil(len(track_uris) / self.MAX_FEATURES)
NumBatches(n) == (n + MAX_FEATURES - 1) \div MAX_FEATURES

\* line 206-209: track_uris[i * MAX_FEATURES : min((i + 1) * MAX_FEATURES, len(track_uris))]
Chunk(uris, i) ==
    SubSeq(uris, i * MAX_FEATURES + 1, Min((i + 1) * MAX_FEATURES, Len(uris)))

\* line 202-205: the call builds track_uris and evaluates the outermost
\* iterable range(...); the rest of the generator expression runs on demand
FeatStart(tracks) ==
    /\ f_tracks' = tracks
    /\ track_uris' = [j \in 1..Len(tracks) |-> get_track_uri_from_track(tracks[j])]
    /\ f_n' = NumBatches(Len(tracks))
    /\ f_i' = 0
    /\ f_batch' = <<>>
    /\ f_j' = 0
    /\ f_calls' = <<>>
    /\ f_out' = <<>>
    /\ f_pc' = "created"

FeatCall ==
    /\ f_pc = "ready"
    /\ FeatStart(f_tracks)
    /\ UNCHANGED notFeat

\* line 205: for i in range(...): no batch is left
FeatExhausted ==
    /\ f_pc = "loop"
    /\ f_i = f_n
    /\ f_pc' = "done"
    /\ UNCHANGED <<f_tracks, track_uris, f_n, f_i, f_batch, f_j, f_calls, f_out>>
    /\ UNCHANGED notFeat

\* line 206-209: self.sp.audio_features(track_uris[...])
FeatBatchCall ==
    /\ f_pc = "loop"
    /\ f_i < f_n
    /\ f_batch' = audio_features(Chunk(track_uris, f_i))
    /\ f_calls' = Append(f_calls, Chunk(track_uris, f_i))
    /\ f_j' = 0
    /\ f_pc' = "inner"
    /\ UNCHANGED <<f_tracks, track_uris, f_n, f_i, f_out>>
    /\ UNCHANGED notFeat

\* line 204-206: for af in <batch>: yield af
FeatYield ==
    /\ f_pc = "inner"
    /\ f_j < Len(f_batch)
    /\ f_out' = Append(f_out, f_batch[f_j + 1])
    /\ f_j' = f_j + 1
    /\ f_pc' = "yielded"
    /\ UNCHANGED <<f_tracks, track_uris, f_n, f_i, f_batch, f_calls>>
    /\ UNCHANGED notFeat

\* the batch is used up: the outer loop moves to the next i
FeatBatchEnd ==
    /\ f_pc = "inner"
    /\ f_j = Len(f_batch)
    /\ f_i' = f_i + 1
    /\ f_pc' = "loop"
    /\ UNCHANGED <<f_tracks, track_uris, f_n, f_batch, f_j, f_calls, f_out>>
    /\ UNCHANGED notFeat

\* the consumer calls next() on the generator expression
FeatConsumerNext ==
    /\ f_pc \in {"created", "yielded"}
    /\ f_pc' = IF f_pc = "created" THEN "loop" ELSE "inner"
    /\ UNCHANGED <<f_tracks, track_uris, f_n, f_i, f_batch, f_j, f_calls, f_out>>
    /\ UNCHANGED notFeat

-----------------------------------------------------------------------------
(* Python expressions that may raise: an outcome is a value or an          *)
(* exception.                                                              *)

Ok(v) == [ok |-> TRUE, v |-> v]
Raise(e) == [ok |-> FALSE, exc |-> e]

\* x[key] for a str key: KeyError on a dict without the key, TypeError on
\* None, a str, a list or an int
GetItem(x, key) ==
    IF IsDict(x)
    THEN IF key \in DOMAIN x.d THEN Ok(x.d[key]) ELSE Raise("KeyError")
    ELSE Raise("TypeError")

RECURSIVE Path(_, _)
\* x[k1][k2]...[kn]
Path(x, keys) ==
    IF keys = <<>> THEN Ok(x)
    ELSE LET r == GetItem(x, Head(keys))
         IN IF r.ok THEN Path(r.v, Tail(keys)) ELSE r

\* x.get(key, None): AttributeError on anything but a dict
DictGet(x, key) ==
    IF IsDict(x)
    THEN IF key \in DOMAIN x.d THEN Ok(x.d[key]) ELSE Ok(None)
    ELSE Raise("AttributeError")

\* repr of a str, an int or None
Repr(v) ==
    IF v.t = "str" THEN "'" \o v.s \o "'"
    ELSE IF v.t = "int" THEN ToStr(v.i)
    ELSE "None"

RECURSIVE JoinRepr(_)
JoinRepr(vs) ==
    IF Len(vs) = 1 THEN Repr(vs[1]) ELSE Repr(vs[1]) \o ", " \o JoinRepr(Tail(vs))

\* repr(tuple(vs)): (), ('a',), ('a', 'b')
ReprTuple(vs) ==
    IF vs = <<>> THEN "()"
    ELSE IF Len(vs) = 1 THEN "(" \o Repr(vs[1]) \o ",)"
    ELSE "(" \o JoinRepr(vs) \o ")"

\* line 222: repr(tuple(a['name'] for a in artists)); iterating None, or
\* subscripting an element that is no dict, is a TypeError
ArtistRepr(artists) ==
    IF artists.t # "list" THEN Raise("TypeError")
    ELSE LET rs == [k \in 1..Len(artists.l) |-> GetItem(artists.l[k], "name")]
             bad == {k \in 1..Len(rs) : ~rs[k].ok}
         IN IF bad = {}
            THEN Ok(Str(ReprTuple([k \in 1..Len(rs) |-> rs[k].v])))
            ELSE rs[CHOOSE k \in bad : \A j \in bad : k <= j]

\* the outcome of building a dict field by field, in the order of `fields`:
\* the first expression that raises ends it
BuildInfo(fields, outcomes) ==
    LET bad == {k \in 1..Len(fields) : ~outcomes[k].ok}
    IN IF bad = {}
       THEN Ok([key \in Range(fields) |->
                  outcomes[CHOOSE k \in 1..Len(fields) : fields[k] = key].v])
       ELSE outcomes[CHOOSE k \in bad : \A j \in bad : k <= j]

-----------------------------------------------------------------------------
(* The remote single-entity lookups sp.track and sp.playlist.              *)

\* a complete playlist item: track i with its added-at stamp
FullItem(i) ==
    Dict([added_at |-> Str("2020-01-0" \o ToStr(i)),
          track |-> Dict([
              name |-> Str("song" \o ToStr(i)),
              artists |-> List([k \in 1..i |-> Dict([name |-> Str("artist" \o ToStr(k))])]),
              album |-> Dict([name |-> Str("album" \o ToStr(i)),
                              release_date |-> Str("199" \o ToStr(i))]),
              external_urls |-> Dict([spotify |-> Str("https://open.spotify.com/track/" \o TrackId(i))]),
              uri |-> Str(TrackPrefix \o TrackId(i)),
              duration_ms |-> Num(1000 * i),
              popularity |-> Num(10 * i)])])

PlaylistId(i) == "p" \o ToStr(i)

\* a complete playlist object
FullPlaylist(i) ==
    Dict([name |-> Str("list" \o ToStr(i)),
          description |-> Str("about" \o ToStr(i)),
          uri |-> Str(PlaylistPrefix \o PlaylistId(i)),
          external_urls |-> Dict([spotify |-> Str("https://open.spotify.com/playlist/" \o PlaylistId(i))]),
          owner |-> Dict([display_name |-> Str("owner" \o ToStr(i)),
                          uri |-> Str("spotify:user:u" \o ToStr(i))])])

StripPrefix(s, prefix) ==
    IF StartsWith(s, prefix) THEN SubSeq(s, Len(prefix) + 1, Len(s)) ELSE s

\* self.sp.track(x) for an ID or URI: the record of a track the remote
\* knows, SpotifyException otherwise
sp_track(x) ==
    LET known == {i \in 1..CatalogueSize : TrackId(i) = StripPrefix(x.s, TrackPrefix)}
    IN IF known = {} THEN Raise("SpotifyException") ELSE Ok(FullItem(CHOOSE i \in known : TRUE))

\* self.sp.playlist(x) for an ID or URI
sp_playlist(x) ==
    LET known == {i \in 1..CatalogueSize : PlaylistId(i) = StripPrefix(x.s, PlaylistPrefix)}
    IN IF known = {} THEN Raise("SpotifyException")
       ELSE Ok(FullPlaylist(CHOOSE i \in known : TRUE))

-----------------------------------------------------------------------------
(* The projections.                                                        *)

PLAYLIST_COLUMNS == <<"name", "description", "uri", "url", "owner_name", "owner_uri">>

TRACK_COLUMNS_BASIC ==
    <<"added_at", "uri", "url", "name", "artist", "album", "album_date", "duration",
      "popularity">>

TRACK_COLUMNS == TRACK_COLUMNS_BASIC \o TRACK_COLUMNS_AUDIO_FEATURES

AllNone(columns) == [key \in Range(columns) |-> None]

get_playlist_from_playlist(playlist) ==
    IF IsDict(playlist) THEN playlist
    ELSE LET r == sp_playlist(playlist) IN IF r.ok THEN r.v ELSE None

get_track_from_track(track) ==
    IF IsDict(track) THEN track
    ELSE LET r == sp_track(track) IN IF r.ok THEN r.v ELSE None

\* x[k1]...[kn].get(key, None)
PathGet(x, keys, key) ==
    LET r == Path(x, keys) IN IF r.ok THEN DictGet(r.v, key) ELSE r

get_info_from_playlist(arg) ==
    LET playlist == get_playlist_from_playlist(arg)
    IN IF IsNone(playlist) THEN Ok(AllNone(PLAYLIST_COLUMNS))
       ELSE BuildInfo(
              <<"name", "description", "uri", "url", "owner_name", "owner_uri">>,
              <<Path(playlist, <<"name">>),
                Path(playlist, <<"description">>),
                Path(playlist, <<"uri">>),
                PathGet(playlist, <<"external_urls">>, "spotify"),
                Path(playlist, <<"owner", "display_name">>),
                Path(playlist, <<"owner", "uri">>)>>)

get_info_from_track(arg) ==
    LET track == get_track_from_track(arg)
        artists == Path(track, <<"track", "artists">>)
    IN IF IsNone(track) THEN Ok(AllNone(TRACK_COLUMNS))
       ELSE BuildInfo(
              <<"name", "artist", "added_at", "album", "album_date", "url", "uri",
                "duration", "popularity">>,
              <<Path(track, <<"track", "name">>),
                IF artists.ok THEN ArtistRepr(artists.v) ELSE artists,
                Path(track, <<"added_at">>),
                Path(track, <<"track", "album", "name">>),
                Path(track, <<"track", "album", "release_date">>),
                PathGet(track, <<"track", "external_urls">>, "spotify"),
                Path(track, <<"track", "uri">>),
                Path(track, <<"track", "duration_ms">>),
                Path(track, <<"track", "popularity">>)>>)

get_info_from_audio_features(audio_features_) ==
    IF IsNone(audio_features_) THEN Ok(AllNone(TRACK_COLUMNS_AUDIO_FEATURES))
    ELSE BuildInfo(TRACK_COLUMNS_AUDIO_FEATURES,
                   [k \in 1..Len(TRACK_COLUMNS_AUDIO_FEATURES) |->
                        GetItem(audio_features_, TRACK_COLUMNS_AUDIO_FEATURES[k])])

Pending(out) == "ok" \notin DOMAIN out

ProjectPlaylist ==
    /\ pj_kind = "playlist"
    /\ ~IsNone(pj_arg)
    /\ Pending(pj_out)
    /\ pj_out' = get_info_from_playlist(pj_arg)
    /\ UNCHANGED <<pj_kind, pj_arg, pj_case>>
    /\ UNCHANGED notProj

ProjectTrack ==
    /\ pj_kind = "track"
    /\ ~IsNone(pj_arg)
    /\ Pending(pj_out)
    /\ pj_out' = get_info_from_track(pj_arg)
    /\ UNCHANGED <<pj_kind, pj_arg, pj_case>>
    /\ UNCHANGED notProj

ProjectFeatures ==
    /\ pj_kind = "features"
    /\ pj_case.how # "none"
    /\ Pending(pj_out)
    /\ pj_out' = get_info_from_audio_features(pj_arg)
    /\ UNCHANGED <<pj_kind, pj_arg, pj_case>>
    /\ UNCHANGED notProj

-----------------------------------------------------------------------------
(* get_df_from_playlist. A frame is a sequence of rows, each with its      *)
(* index label; NaN is None.                                               *)

\* pd.DataFrame.from_records(records, columns=columns): one row per record,
\* labelled 0, 1, ...; a declared column the record lacks is null, a key
\* that is no declared column is left out
from_records(records, columns) ==
    [k \in 1..Len(records) |->
        [index |-> k - 1,
         row |-> [column \in Range(columns) |->
                    IF column \in DOMAIN records[k] THEN records[k][column] ELSE None]]]

RECURSIVE dropna(_, _)
\* df.dropna(subset=[column]): the rows whose `column` is not null, with the
\* labels they had
dropna(frame, column) ==
    IF frame = <<>> THEN <<>>
    ELSE IF IsNone(frame[1].row[column]) THEN dropna(Tail(frame), column)
    ELSE <<frame[1]>> \o dropna(Tail(frame), column)

Labels(frame) == {frame[k].index : k \in 1..Len(frame)}

RECURSIVE Ascending(_)
\* the numbers of a set in ascending order
Ascending(labels) ==
    IF labels = {} THEN <<>>
    ELSE LET least == CHOOSE x \in labels : \A y \in labels : x <= y
         IN <<least>> \o Ascending(labels \ {least})

\* the row of `frame` labelled `label`, all null when it has none
RowAt(frame, label, columns) ==
    IF label \in Labels(frame)
    THEN frame[CHOOSE k \in 1..Len(frame) : frame[k].index = label].row
    ELSE AllNone(columns)

\* pd.concat((left, right), axis=1): the rows are joined on their labels,
\* over the union of the labels; the union keeps the order of appearance or
\* is sorted, depending on the pandas version
concat_axis1(left, leftColumns, right, rightColumns, sorted) ==
    LET order == IF sorted THEN Ascending(Labels(left) \cup Labels(right))
                 ELSE [k \in 1..Len(left) |-> left[k].index]
                      \o Ascending(Labels(right) \ Labels(left))
    IN [k \in 1..Len(order) |->
          [index |-> order[k],
           row |-> RowAt(left, order[k], leftColumns) @@ RowAt(right, order[k], rightColumns)]]

\* line 252-259: the track generator is created (none of its body runs) and,
\* when verbose, get_info_from_playlist(playlist)['name'] is read for the
\* progress bar (every row it returns has the key 'name')
DfCall ==
    /\ df_pc = "ready"
    /\ pc = "none"
    /\ pc' = "created"
    /\ df_pc' = IF df_args.verbose /\ ~get_info_from_playlist(df_args.playlist).ok
                THEN "raised" ELSE "tracks"
    /\ UNCHANGED <<remote, offset, response, idx, yielded, calls, requested>>
    /\ UNCHANGED <<df_args, df_records, df, df_feature_rows, df_result>>
    /\ UNCHANGED <<normVars, projVars, featVars>>

\* line 261-265: from_records asks the generator expression for the next
\* row, which asks the track generator for the next item
DfNextTrack ==
    /\ df_pc = "tracks"
    /\ pc \in {"created", "yielded"}
    /\ Len(df_records) = Len(yielded)
    /\ pc' = IF pc = "created" THEN "fetch" ELSE "iter"
    /\ requested' = requested + 1
    /\ UNCHANGED <<remote, offset, response, idx, yielded, calls>>
    /\ UNCHANGED <<dfVars, normVars, projVars, featVars>>

\* line 263: self.get_info_from_track(track) for the item just yielded
DfProjectTrack ==
    /\ df_pc = "tracks"
    /\ pc = "yielded"
    /\ Len(df_records) < Len(yielded)
    /\ LET r == get_info_from_track(yielded[Len(yielded)])
       IN IF r.ok
          THEN df_records' = Append(df_records, r.v) /\ df_pc' = df_pc
          ELSE df_records' = df_records /\ df_pc' = "raised"
    /\ UNCHANGED <<df_args, df, df_feature_rows, df_result>>
    /\ UNCHANGED <<pagVars, normVars, projVars, featVars>>

\* line 261-267: the generator is exhausted: the frame is built
DfFromRecords ==
    /\ df_pc = "tracks"
    /\ pc = "done"
    /\ df' = from_records(df_records, TRACK_COLUMNS_BASIC)
    /\ df_pc' = "frame"
    /\ UNCHANGED <<df_args, df_records, df_feature_rows, df_result>>
    /\ UNCHANGED <<pagVars, normVars, projVars, featVars>>

\* line 269: df.dropna(subset=['uri'], inplace=True)
DfDropna ==
    /\ df_pc = "frame"
    /\ df' = dropna(df, "uri")
    /\ df_pc' = "filtered"
    /\ UNCHANGED <<df_args, df_records, df_feature_rows, df_result>>
    /\ UNCHANGED <<pagVars, normVars, projVars, featVars>>

\* line 271, 289: include_audio_features is off: return df
DfReturnBasic ==
    /\ df_pc = "filtered"
    /\ ~df_args.include_audio_features
    /\ df_result' = df
    /\ df_pc' = "returned"
    /\ UNCHANGED <<df_args, df_records, df, df_feature_rows>>
    /\ UNCHANGED <<pagVars, normVars, projVars, featVars>>

\* line 271-272: features_iterator = self.get_audio_features(df['uri'])
DfAudioFeatures ==
    /\ df_pc = "filtered"
    /\ df_args.include_audio_features
    /\ FeatStart([k \in 1..Len(df) |-> df[k].row["uri"]])
    /\ df_pc' = "features"
    /\ UNCHANGED <<df_args, df_records, df, df_feature_rows, df_result>>
    /\ UNCHANGED <<pagVars, normVars, projVars>>

\* line 282-283: from_records asks for the next feature row
DfNextFeature ==
    /\ df_pc = "features"
    /\ f_pc \in {"created", "yielded"}
    /\ Len(df_feature_rows) = Len(f_out)
    /\ f_pc' = IF f_pc = "created" THEN "loop" ELSE "inner"
    /\ UNCHANGED <<f_tracks, track_uris, f_n, f_i, f_batch, f_j, f_calls, f_out>>
    /\ UNCHANGED notFeat

\* line 283: self.get_info_from_audio_features(feature)
DfProjectFeature ==
    /\ df_pc = "features"
    /\ f_pc = "yielded"
    /\ Len(df_feature_rows) < Len(f_out)
    /\ LET r == get_info_from_audio_features(f_out[Len(f_out)])
       IN IF r.ok
          THEN df_feature_rows' = Append(df_feature_rows, r.v) /\ df_pc' = df_pc
          ELSE df_feature_rows' = df_feature_rows /\ df_pc' = "raised"
    /\ UNCHANGED <<df_args, df_records, df, df_result>>
    /\ UNCHANGED <<pagVars, normVars, projVars, featVars>>

\* line 282-289: df_features is built and df is joined with it
DfConcat ==
    /\ df_pc = "features"
    /\ f_pc = "done"
    /\ \E sorted \in BOOLEAN :
          df_result' = concat_axis1(
                          df, TRACK_COLUMNS_BASIC,
                          from_records(df_feature_rows, TRACK_COLUMNS_AUDIO_FEATURES),
                          TRACK_COLUMNS_AUDIO_FEATURES, sorted)
    /\ df_pc' = "returned"
    /\ UNCHANGED <<df_args, df_records, df, df_feature_rows>>
    /\ UNCHANGED <<pagVars, normVars, projVars, featVars>>

-----------------------------------------------------------------------------
(* Idle components: the parts of the state a specification does not use.   *)

PagIdle ==
    /\ remote = <<>>
    /\ pc = "none"
    /\ offset = 0
    /\ response = PastEnd
    /\ idx = 0
    /\ yielded = <<>>
    /\ calls = <<>>
    /\ requested = 0

ProjIdle ==
    /\ pj_kind = "track"
    /\ pj_arg = None
    /\ pj_case = [how |-> "none", base |-> None, path |-> <<>>]
    /\ pj_out = None

FeatIdle ==
    /\ f_pc = "none"
    /\ f_tracks = <<>>
    /\ track_uris = <<>>
    /\ f_n = 0
    /\ f_i = 0
    /\ f_batch = <<>>
    /\ f_j = 0
    /\ f_calls = <<>>
    /\ f_out = <<>>

DfIdle ==
    /\ df_pc = "none"
    /\ df_args = None
    /\ df_records = <<>>
    /\ df = <<>>
    /\ df_feature_rows = <<>>
    /\ df_result = <<>>

-----------------------------------------------------------------------------
(* Spec: one traversal of a well-behaved listing by _get_all_items, the    *)
(* consumer free to stop between items.                                    *)

Init ==
    /\ remote \in GoodRemotes
    /\ GenInit
    /\ NormIdle /\ ProjIdle /\ FeatIdle /\ DfIdle

Next ==
    \/ ConsumerNext
    \/ ConsumerStop
    \/ GetterCall
    \/ YieldItem
    \/ AdvanceOffset

Spec == Init /\ [][Next]_vars

(* SpecRogue: a full traversal (the consumer never stops) of a listing     *)
(* that may misbehave. A Python for loop keeps calling next() and the      *)
(* generator body keeps running, so every step that is enabled is taken.   *)

InitRogue ==
    /\ remote \in GoodRemotes \cup RogueRemotes
    /\ GenInit
    /\ NormIdle /\ ProjIdle /\ FeatIdle /\ DfIdle

NextRogue ==
    \/ ConsumerNext
    \/ GetterCallUnrecorded
    \/ YieldItem
    \/ AdvanceOffset

SpecRogue == InitRogue /\ [][NextRogue]_vars /\ WF_vars(NextRogue)

(* SpecNorm: the URI normalisers applied once and twice to an argument.    *)

IdAlphabet == {"a", "7", ":"}

RECURSIVE StringsUpTo(_)
StringsUpTo(n) ==
    IF n = 0 THEN {""}
    ELSE LET S == StringsUpTo(n - 1) IN S \cup {s \o c : s \in S, c \in IdAlphabet}

Prefixes ==
    {"", PlaylistPrefix, TrackPrefix, "spotify:user:", "spotify:playlist", "spotify:",
     PlaylistPrefix \o PlaylistPrefix, TrackPrefix \o TrackPrefix}

NormStrings == {pre \o id : pre \in Prefixes, id \in StringsUpTo(MaxIdLen)}

NormArgs ==
    {Str(s) : s \in NormStrings}
    \cup {Dict([uri |-> Str(PlaylistPrefix \o "a")]), Dict([uri |-> Str(TrackPrefix \o "a")])}

InitNorm ==
    /\ nz_kind \in {"playlist", "track"}
    /\ nz_x \in NormArgs
    /\ nz_once = None
    /\ nz_twice = None
    /\ PagIdle /\ ProjIdle /\ FeatIdle /\ DfIdle

NextNorm ==
    \/ NormaliseOnce
    \/ NormaliseTwice

SpecNorm == InitNorm /\ [][NextNorm]_vars

(* SpecFeatures: get_audio_features called on 0..MaxTracks tracks, given   *)
(* as bare IDs, URIs and track objects in turn, and consumed to the end.   *)

TrackArg(j) ==
    IF j % 3 = 0 THEN Str(TrackId(j))
    ELSE IF j % 3 = 1 THEN Str(TrackPrefix \o TrackId(j))
    ELSE Dict([uri |-> Str(TrackPrefix \o TrackId(j))])

InitFeatures ==
    /\ f_pc = "ready"
    /\ \E n \in 0..MaxTracks : f_tracks = [j \in 1..n |-> TrackArg(j)]
    /\ track_uris = <<>>
    /\ f_n = 0
    /\ f_i = 0
    /\ f_batch = <<>>
    /\ f_j = 0
    /\ f_calls = <<>>
    /\ f_out = <<>>
    /\ PagIdle /\ NormIdle /\ ProjIdle /\ DfIdle

NextFeatures ==
    \/ FeatCall
    \/ FeatConsumerNext
    \/ FeatBatchCall
    \/ FeatYield
    \/ FeatBatchEnd
    \/ FeatExhausted

SpecFeatures == InitFeatures /\ [][NextFeatures]_vars

(* SpecProject: one projection applied to one argument: a complete record, *)
(* a record with one key removed or one value None, an unanalysed track's  *)
(* None, or an ID / URI the remote knows or does not know.                 *)

RECURSIVE RemoveKey(_, _)
\* the dict x without the key at the end of `path`
RemoveKey(x, path) ==
    IF Len(path) = 1
    THEN Dict([key \in DOMAIN x.d \ {path[1]} |-> x.d[key]])
    ELSE Dict([x.d EXCEPT ![path[1]] = RemoveKey(@, Tail(path))])

RECURSIVE SetNone(_, _)
\* the dict x with None as the value at the end of `path`
SetNone(x, path) ==
    IF Len(path) = 1
    THEN Dict([x.d EXCEPT ![path[1]] = None])
    ELSE Dict([x.d EXCEPT ![path[1]] = SetNone(@, Tail(path))])

\* every key a projection reads, as the path leading to it
KeyPaths(kind) ==
    IF kind = "track"
    THEN {<<"added_at">>, <<"track">>, <<"track", "name">>, <<"track", "artists">>,
          <<"track", "album">>, <<"track", "album", "name">>,
          <<"track", "album", "release_date">>, <<"track", "external_urls">>,
          <<"track", "external_urls", "spotify">>, <<"track", "uri">>,
          <<"track", "duration_ms">>, <<"track", "popularity">>}
    ELSE IF kind = "playlist"
    THEN {<<"name">>, <<"description">>, <<"uri">>, <<"external_urls">>,
          <<"external_urls", "spotify">>, <<"owner">>, <<"owner", "display_name">>,
          <<"owner", "uri">>}
    ELSE {<<key>> : key \in Range(TRACK_COLUMNS_AUDIO_FEATURES)}

FullRecord(kind, i) ==
    IF kind = "track" THEN FullItem(i)
    ELSE IF kind = "playlist" THEN FullPlaylist(i)
    ELSE FeatureObject(Str(TrackPrefix \o TrackId(i)))

EntityId(kind, i) == IF kind = "track" THEN TrackId(i) ELSE PlaylistId(i)

Case(kind, arg, how, base, path) ==
    [kind |-> kind, arg |-> arg, case |-> [how |-> how, base |-> base, path |-> path]]

RecordCases(kind) ==
    UNION {
        {Case(kind, FullRecord(kind, i), "full", FullRecord(kind, i), <<>>)}
        \cup {Case(kind, RemoveKey(FullRecord(kind, i), path), "removed", FullRecord(kind, i), path)
                 : path \in KeyPaths(kind)}
        \cup {Case(kind, SetNone(FullRecord(kind, i), path), "nulled", FullRecord(kind, i), path)
                 : path \in KeyPaths(kind)}
        : i \in 1..CatalogueSize}

LookupCases(kind) ==
    UNION {
        {Case(kind, Str(pre \o EntityId(kind, i)), "found", FullRecord(kind, i), <<>>),
         Case(kind, Str(pre \o "gone" \o ToStr(i)), "notfound", None, <<>>)}
        : pre \in {"", PrefixOfKind(kind)}, i \in 1..CatalogueSize}

ProjCases ==
    RecordCases("track") \cup LookupCases("track")
    \cup RecordCases("playlist") \cup LookupCases("playlist")
    \cup RecordCases("features") \cup {Case("features", None, "null", None, <<>>)}

InitProject ==
    /\ \E c \in ProjCases :
          /\ pj_kind = c.kind
          /\ pj_arg = c.arg
          /\ pj_case = c.case
    /\ pj_out = None
    /\ PagIdle /\ NormIdle /\ FeatIdle /\ DfIdle

NextProject ==
    \/ ProjectPlaylist
    \/ ProjectTrack
    \/ ProjectFeatures

SpecProject == InitProject /\ [][NextProject]_vars

(* SpecDf: get_df_from_playlist on a playlist of 0..MaxPlaylistLen items,  *)
(* served in pages of DfPageLimit. An item is a complete playlist item, an *)
(* item whose track is None (deleted), an item whose track has no URI      *)
(* value, or a URI the track lookup finds or does not find.                *)

ItemKinds == {"full", "deleted", "nouri", "found", "notfound"}

Item(kind, i) ==
    IF kind = "full" THEN FullItem(i)
    ELSE IF kind = "deleted" THEN SetNone(FullItem(i), <<"track">>)
    ELSE IF kind = "nouri" THEN SetNone(FullItem(i), <<"track", "uri">>)
    ELSE IF kind = "found" THEN Str(TrackPrefix \o TrackId(i))
    ELSE Str(TrackPrefix \o "gone" \o ToStr(i))

\* the listing of `items` in pages of DfPageLimit
Listing(items) ==
    LET n == IF items = <<>> THEN 1 ELSE (Len(items) + DfPageLimit - 1) \div DfPageLimit
    IN [k \in 1..n |->
          [items |-> SubSeq(items, (k - 1) * DfPageLimit + 1, Min(k * DfPageLimit, Len(items))),
           limit |-> DfPageLimit,
           next  |-> IF k = n THEN None ELSE Str("next")]]

InitDf ==
    /\ \E n \in 0..MaxPlaylistLen : \E kinds \in [1..n -> ItemKinds] :
       \E playlist \in {FullPlaylist(1), Str(PlaylistPrefix \o PlaylistId(1)), Str(PlaylistId(1))} :
       \E include \in BOOLEAN : \E verbose \in BOOLEAN :
          /\ df_args = [playlist |-> playlist, include_audio_features |-> include,
                        verbose |-> verbose, kinds |-> kinds]
          /\ remote = Listing([i \in 1..n |-> Item(kinds[i], i)])
    /\ pc = "none"
    /\ offset = 0
    /\ response = PastEnd
    /\ idx = 0
    /\ yielded = <<>>
    /\ calls = <<>>
    /\ requested = 0
    /\ df_pc = "ready"
    /\ df_records = <<>>
    /\ df = <<>>
    /\ df_feature_rows = <<>>
    /\ df_result = <<>>
    /\ NormIdle /\ ProjIdle /\ FeatIdle

NextDf ==
    \/ DfCall
    \/ DfNextTrack
    \/ GetterCall
    \/ YieldItem
    \/ AdvanceOffset
    \/ DfProjectTrack
    \/ DfFromRecords
    \/ DfDropna
    \/ DfReturnBasic
    \/ DfAudioFeatures
    \/ DfNextFeature
    \/ FeatBatchCall
    \/ FeatYield
    \/ FeatBatchEnd
    \/ FeatExhausted
    \/ DfProjectFeature
    \/ DfConcat

SpecDf == InitDf /\ [][NextDf]_vars

-----------------------------------------------------------------------------
(* Claims about _get_all_items over well-behaved listings.                 *)

RECURSIVE AllItems(_, _)
\* the concatenation of the items of pages k, k+1, ...
AllItems(pages, k) ==
    IF k > Len(pages) THEN <<>> ELSE pages[k].items \o AllItems(pages, k + 1)

RECURSIVE ItemsThrough(_, _)
\* number of items on pages 1..k
ItemsThrough(pages, k) ==
    IF k = 0 THEN 0 ELSE ItemsThrough(pages, k - 1) + Len(pages[k].items)

\* the page holding the n-th item of the listing; the last page when the
\* listing has fewer than n items
PageOfItem(pages, n) ==
    LET ps == {k \in 1..Len(pages) : ItemsThrough(pages, k) >= n}
    IN IF ps = {} THEN Len(pages) ELSE CHOOSE k \in ps : \A j \in ps : k <= j

PageOffsets(pages, n) == [k \in 1..n |-> PageStart(pages, k)]

\* C1: a full traversal of N pages yields the concatenation of the pages'
\* items in page order, calls the getter exactly N times with offsets
\* 0, limit_1, limit_1 + limit_2, ..., and never calls it after the page
\* whose `next` is absent.
C1_FullTraversal ==
    /\ Len(calls) <= Len(remote)
    /\ pc = "done" =>
          /\ yielded = AllItems(remote, 1)
          /\ calls = PageOffsets(remote, Len(remote))

C1_Witness ==
    /\ pc = "done"
    /\ Len(remote) >= 3
    /\ Len(yielded) >= 2
    /\ \E k \in 1..Len(remote) : Len(remote[k].items) < remote[k].limit

\* C2: pagination is lazy: nothing is fetched before the first item is
\* requested; the pages fetched are always the first pages of the listing,
\* never beyond the page holding the last item requested; and once that
\* item is handed over (or the consumer has stopped after it) they are
\* exactly the pages up to and including that page.
C2_Lazy ==
    /\ calls = PageOffsets(remote, Len(calls))
    /\ requested = 0 => calls = <<>>
    /\ requested > 0 => Len(calls) <= PageOfItem(remote, requested)
    /\ (requested > 0 /\ pc \in {"yielded", "closed"}) =>
          /\ Len(yielded) = requested
          /\ Len(calls) = PageOfItem(remote, requested)

C2_Witness ==
    /\ pc = "closed"
    /\ requested >= 2
    /\ idx = Len(response.items)
    /\ ~IsNone(response.next)
    /\ Len(calls) < Len(remote)

\* C7: a full traversal completes whatever the remote reports, also when it
\* reports pages with `next` present and `items` empty.
C7_TraversalCompletes == <>(pc = "done")

-----------------------------------------------------------------------------
(* Claims about the URI normalisers.                                       *)

IsBareId(s) == s # "" /\ ~Contains(":", s)

\* C9: for a string argument, normalising twice gives what normalising once
\* gives; the result carries the prefix of the entity type; a bare ID gets
\* that prefix exactly once; an already prefixed string is returned
\* unchanged.
C9_Idempotent ==
    /\ (~IsNone(nz_twice) /\ ~IsDict(nz_x)) => nz_twice = nz_once
    /\ (~IsNone(nz_once) /\ ~IsDict(nz_x)) =>
          /\ StartsWith(nz_once.s, PrefixOfKind(nz_kind))
          /\ StartsWith(nz_x.s, PrefixOfKind(nz_kind)) => nz_once = nz_x
          /\ IsBareId(nz_x.s) =>
                /\ nz_once = Str(PrefixOfKind(nz_kind) \o nz_x.s)
                /\ Occurrences(PrefixOfKind(nz_kind), nz_once.s) = 1

C9_Witness ==
    /\ ~IsNone(nz_twice)
    /\ nz_kind = "playlist"
    /\ nz_x = Str("a7")
    /\ nz_twice = Str("spotify:playlist:a7")

-----------------------------------------------------------------------------
(* Claims about get_audio_features.                                        *)

ExpectedUri(j) == Str(TrackPrefix \o TrackId(j))

ExpectedFeatures(j) ==
    IF Unanalysed(ExpectedUri(j)) THEN None ELSE FeatureObject(ExpectedUri(j))

\* C6: for n tracks and B = MAX_FEATURES a full consumption issues exactly
\* ceil(n / B) batch calls, the i-th with the i-th consecutive chunk of the
\* URIs, every chunk non-empty and of at most B URIs, all but the last of
\* exactly B; the yielded sequence has length n and its j-th element is the
\* result for the j-th URI.
C6_Batches ==
    LET n == Len(f_tracks)
        B == MAX_FEATURES
    IN /\ B * Len(f_calls) < n + B
       /\ \A i \in 1..Len(f_calls) :
             /\ f_calls[i] = [k \in 1..Min(B, n - (i - 1) * B) |-> ExpectedUri((i - 1) * B + k)]
             /\ Len(f_calls[i]) >= 1
             /\ Len(f_calls[i]) <= B
             /\ i * B < n => Len(f_calls[i]) = B
       /\ f_pc = "done" =>
             /\ B * Len(f_calls) >= n
             /\ f_out = [j \in 1..n |-> ExpectedFeatures(j)]

C6_Witness ==
    /\ f_pc = "done"
    /\ Len(f_tracks) = 250
    /\ Len(f_calls) = 3
    /\ Len(f_calls[1]) = 100 /\ Len(f_calls[2]) = 100 /\ Len(f_calls[3]) = 50
    /\ Len(f_out) = 250

-----------------------------------------------------------------------------
(* Claims about the projections.                                           *)

DeclaredColumns(kind) ==
    IF kind = "track" THEN TRACK_COLUMNS_BASIC
    ELSE IF kind = "playlist" THEN PLAYLIST_COLUMNS
    ELSE TRACK_COLUMNS_AUDIO_FEATURES

\* the path each column is read from
ColumnPath(kind, column) ==
    IF kind = "track"
    THEN [added_at |-> <<"added_at">>, uri |-> <<"track", "uri">>,
          url |-> <<"track", "external_urls", "spotify">>, name |-> <<"track", "name">>,
          artist |-> <<"track", "artists">>, album |-> <<"track", "album", "name">>,
          album_date |-> <<"track", "album", "release_date">>,
          duration |-> <<"track", "duration_ms">>,
          popularity |-> <<"track", "popularity">>][column]
    ELSE IF kind = "playlist"
    THEN [name |-> <<"name">>, description |-> <<"description">>, uri |-> <<"uri">>,
          url |-> <<"external_urls", "spotify">>, owner_name |-> <<"owner", "display_name">>,
          owner_uri |-> <<"owner", "uri">>][column]
    ELSE <<column>>

IsPrefix(p, q) == Len(p) <= Len(q) /\ SubSeq(q, 1, Len(p)) = p

FullProjection(kind, record) ==
    IF kind = "track" THEN get_info_from_track(record).v
    ELSE IF kind = "playlist" THEN get_info_from_playlist(record).v
    ELSE get_info_from_audio_features(record).v

\* a track reference that cannot be resolved: a playlist item whose track is
\* None (the track was deleted), or an ID / URI the lookup does not find
Unresolvable ==
    \/ pj_case.how = "notfound"
    \/ pj_kind = "track" /\ pj_case.how = "nulled" /\ pj_case.path = <<"track">>

\* C3: projecting an unresolvable track or playlist reference raises
\* nothing and returns a row in which every declared column is None.
C3_UnresolvableGivesNullRow ==
    (Unresolvable /\ ~Pending(pj_out)) =>
        /\ pj_out.ok
        /\ \A column \in Range(DeclaredColumns(pj_kind)) :
              column \in DOMAIN pj_out.v /\ pj_out.v[column] = None

\* C4: projecting a track or playlist record in which one key along a
\* declared field's path is missing raises nothing and returns the
\* projection of the complete record with the affected columns None.
C4_MissingKeyGivesNullColumn ==
    (pj_kind \in {"track", "playlist"} /\ pj_case.how = "removed" /\ ~Pending(pj_out)) =>
        /\ pj_out.ok
        /\ pj_out.v =
              [column \in Range(DeclaredColumns(pj_kind)) |->
                 IF IsPrefix(pj_case.path, ColumnPath(pj_kind, column)) THEN None
                 ELSE FullProjection(pj_kind, pj_case.base)[column]]

\* C8: every row a projection returns has exactly the declared columns of
\* its entity type, whether the raw record was None or not.
C8_DeclaredColumnSet ==
    (~Pending(pj_out) /\ pj_out.ok) =>
        DOMAIN pj_out.v = Range(DeclaredColumns(pj_kind))

-----------------------------------------------------------------------------
(* Claims about get_df_from_playlist.                                      *)

\* the track of the item has a URI: the item is complete or is found
HasUri(kind) == kind \in {"full", "found"}

\* the basic columns of item i of the playlist
ExpectedBasic(kind, i) ==
    IF HasUri(kind) THEN get_info_from_track(FullItem(i)).v
    ELSE IF kind = "nouri" THEN [get_info_from_track(FullItem(i)).v EXCEPT !["uri"] = None]
    ELSE AllNone(TRACK_COLUMNS_BASIC)

\* the audio-feature columns of track i
ExpectedFeatureRow(i) == get_info_from_audio_features(ExpectedFeatures(i)).v

RECURSIVE WithUri(_, _)
\* the positions k, k+1, ... of the playlist whose track has a URI
WithUri(kinds, k) ==
    IF k > Len(kinds) THEN <<>>
    ELSE IF HasUri(kinds[k]) THEN <<k>> \o WithUri(kinds, k + 1)
    ELSE WithUri(kinds, k + 1)

Rows(frame) == [k \in 1..Len(frame) |-> frame[k].row]

\* a playlist of 3 items, one of them a deleted track, the others resolvable
OneDeletedOfThree ==
    /\ Len(df_args.kinds) = 3
    /\ Cardinality({k \in 1..3 : df_args.kinds[k] \in {"deleted", "notfound"}}) = 1
    /\ \A k \in 1..3 : df_args.kinds[k] \in {"deleted", "notfound", "full", "found"}

\* C5: for a playlist of 3 items of which one is a deleted track,
\* get_df_from_playlist does not fail; the projected table has the 3 rows in
\* playlist order, the deleted track's all null; after the null-URI filter
\* the 2 resolvable rows remain in order.
C5_DeletedTrackScenario ==
    OneDeletedOfThree =>
        LET kinds == df_args.kinds
            kept == WithUri(kinds, 1)
        IN /\ df_pc # "raised"
           /\ df_pc = "frame" =>
                 Rows(df) = [k \in 1..3 |-> ExpectedBasic(kinds[k], k)]
           /\ df_pc \in {"filtered", "features", "returned"} =>
                 /\ Len(df) = 2
                 /\ Rows(df) = [j \in 1..2 |-> ExpectedBasic(kinds[kept[j]], kept[j])]

\* C10: with include_audio_features the returned frame has one row per
\* track with a URI, in playlist order, and each row holds that track's
\* basic columns and the audio features fetched for that track's URI.
C10_RowsPairTrackWithItsFeatures ==
    (df_pc = "returned" /\ df_args.include_audio_features) =>
        LET kinds == df_args.kinds
            kept == WithUri(kinds, 1)
        IN Rows(df_result) =
             [j \in 1..Len(kept) |->
                ExpectedBasic(kinds[kept[j]], kept[j]) @@ ExpectedFeatureRow(kept[j])]

====
